---------------------------- MODULE Spec2Model ----------------------------
(***************************************************************************)
(* Model of the Echo request-metrics middleware of src/metrics.go:         *)
(* MiddlewareConfig.ToMiddleware (the interceptor closure, one step per    *)
(* statement) and computeApproximateRequestSize (a pure function).         *)
(*                                                                         *)
(* Go strings are sequences of bytes (0..255); len(s) is Len(s).           *)
(***************************************************************************)
EXTENDS Integers, Sequences, FiniteSets, TLC

(***************************************************************************)
(* Bounds of the model.                                                    *)
(***************************************************************************)
MaxRequests == 2
MaxClock == 1
MaxContentLength == 2
MaxHeaderValues == 2

(***************************************************************************)
(* Program constants.                                                      *)
(***************************************************************************)
StatusOK == 200
StatusInternalServerError == 500
RuneSelf == 128
Second == 1000000000
defaultServiceName == "echo"

(***************************************************************************)
(* Byte strings used as inputs.                                            *)
(***************************************************************************)
EmptyStr == << >>
StrGET == <<71, 69, 84>>
StrPOST == <<80, 79, 83, 84>>
StrHTTP11 == <<72, 84, 84, 80, 47, 49, 46, 49>>
StrSlashX == <<47, 120>>
StrRoute == <<47, 58, 105, 100>>
StrH == <<104>>
StrA == <<65>>
StrBc == <<66, 99>>
StrB == <<98>>
StrCd == <<99, 100>>
\* "/" followed by the two-byte encoding of U+00E9: valid UTF-8
StrValid2 == <<47, 195, 169>>
\* "/", two bytes that start no encoding, "x": invalid UTF-8
StrInvalid == <<47, 255, 254, 120>>
\* the replacement string, U+FFFD, as its three UTF-8 bytes
Replacement == <<239, 191, 189>>


(***************************************************************************)
(* computeApproximateRequestSize (src/metrics.go:152-173).                 *)
(* A request is [URL, Method, Proto, Header, Host, ContentLength]; URL is  *)
(* NoURL (a nil pointer) or [Path |-> bytes]; Header maps each header name *)
(* to the sequence of its values.                                          *)
(***************************************************************************)
NoURL == [nil |-> TRUE]

\* the inner loop: the sum of len(value) over the values of one header
RECURSIVE ValuesSize(_)
ValuesSize(values) ==
    IF values = << >> THEN 0
    ELSE Len(Head(values)) + ValuesSize(Tail(values))

\* variant of HeaderSize: the name is counted once per value
RECURSIVE HeaderSizeNamePerValue(_)
HeaderSizeNamePerValue(header) ==
    IF DOMAIN header = {} THEN 0
    ELSE LET name == CHOOSE n \in DOMAIN header : TRUE
             rest == [n \in (DOMAIN header) \ {name} |-> header[n]]
         IN  Len(name) * Len(header[name]) + ValuesSize(header[name])
             + HeaderSizeNamePerValue(rest)

\* the outer loop over the header map: len(name) once, then its values
RECURSIVE HeaderSize(_)
HeaderSize(header) ==
    IF DOMAIN header = {} THEN 0
    ELSE LET name == CHOOSE n \in DOMAIN header : TRUE
             rest == [n \in (DOMAIN header) \ {name} |-> header[n]]
         IN  Len(name) + ValuesSize(header[name]) + HeaderSize(rest)

\* the contribution of r.ContentLength (lines 168-170); int is 64 bits wide
\* on the targets modelled, so int(r.ContentLength) keeps the int64 value
ContentLengthPart(r) ==
    IF r.ContentLength # -1 THEN r.ContentLength ELSE 0

computeApproximateRequestSize(r) ==
    LET s0 == IF r.URL # NoURL THEN Len(r.URL.Path) ELSE 0
    IN  s0 + Len(r.Method) + Len(r.Proto) + HeaderSize(r.Header)
           + Len(r.Host) + ContentLengthPart(r)

(***************************************************************************)
(* strings.ToValidUTF8(url, U+FFFD) as called at src/metrics.go:127:       *)
(* every run of bytes that belong to no valid UTF-8 encoding is replaced   *)
(* by one replacement string; valid encodings are copied.                  *)
(***************************************************************************)
InRange(b, lo, hi) == b >= lo /\ b <= hi

\* the bounds of the second byte that the lead byte b accepts
SecondLo(b) == IF b = 224 THEN 160 ELSE IF b = 240 THEN 144 ELSE 128
SecondHi(b) == IF b = 237 THEN 159 ELSE IF b = 244 THEN 143 ELSE 191

\* the size the lead byte b announces; 0 when b starts no encoding
LeadSize(b) ==
    IF b < RuneSelf THEN 1
    ELSE IF InRange(b, 194, 223) THEN 2
    ELSE IF InRange(b, 224, 239) THEN 3
    ELSE IF InRange(b, 240, 244) THEN 4
    ELSE 0

\* the width utf8.DecodeRuneInString reports for s[i:] (i is 1-based):
\* the size of a valid encoding, or 1 for an invalid or truncated one
DecodeWidth(s, i) ==
    LET b  == s[i]
        sz == LeadSize(b)
    IN  IF sz = 0 \/ i + sz - 1 > Len(s) THEN 1
        ELSE IF sz = 1 THEN 1
        ELSE IF ~InRange(s[i + 1], SecondLo(b), SecondHi(b)) THEN 1
        ELSE IF sz = 2 THEN 2
        ELSE IF ~InRange(s[i + 2], 128, 191) THEN 1
        ELSE IF sz = 3 THEN 3
        ELSE IF ~InRange(s[i + 3], 128, 191) THEN 1
        ELSE 4

\* the copying loop of strings.ToValidUTF8; invalid: the previous byte was
\* from an invalid sequence
RECURSIVE ToValidLoop(_, _, _, _)
ToValidLoop(s, i, invalid, out) ==
    IF i > Len(s) THEN out
    ELSE IF s[i] < RuneSelf
         THEN ToValidLoop(s, i + 1, FALSE, Append(out, s[i]))
    ELSE LET wid == DecodeWidth(s, i)
         IN  IF wid = 1
             THEN ToValidLoop(s, i + 1, TRUE,
                              IF invalid THEN out ELSE out \o Replacement)
             ELSE ToValidLoop(s, i + wid, FALSE,
                              out \o SubSeq(s, i, i + wid - 1))

ToValidUTF8(s) == ToValidLoop(s, 1, FALSE, << >>)

(***************************************************************************)
(* Errors a handler can return: nil, an error that is no *echo.HTTPError,  *)
(* an *echo.HTTPError with its Code, and an error wrapping another one     *)
(* (errors.As follows the chain).                                          *)
(***************************************************************************)
NilErr == [kind |-> "nil"]
PlainErr == [kind |-> "plain"]
HTTPError(code) == [kind |-> "http", Code |-> code]
Wrap(e) == [kind |-> "wrapped", inner |-> e]
NoHTTPError == [kind |-> "none"]

\* errors.As(err, &httpError) (line 117): the first *echo.HTTPError of the
\* chain of err, or NoHTTPError
RECURSIVE ErrorsAs(_)
ErrorsAs(e) ==
    IF e.kind = "http" THEN e
    ELSE IF e.kind = "wrapped" THEN ErrorsAs(e.inner)
    ELSE NoHTTPError

\* variant of StatusOf: an error leaves a status of 0 or 200 as it is
StatusOfUncoerced(respStatus, e) ==
    IF e # NilErr
    THEN LET httpError == ErrorsAs(e)
         IN  IF httpError # NoHTTPError THEN httpError.Code ELSE respStatus
    ELSE respStatus

\* variant of StatusOf: the error's code is used only when the response has
\* no status yet
StatusOfResponseFirst(respStatus, e) ==
    IF e # NilErr
    THEN LET httpError == ErrorsAs(e)
             s1 == IF httpError # NoHTTPError /\ respStatus = 0
                   THEN httpError.Code
                   ELSE respStatus
         IN  IF s1 = 0 \/ s1 = StatusOK THEN StatusInternalServerError
             ELSE s1
    ELSE respStatus

\* the status attribute (lines 114-123)
StatusOf(respStatus, e) ==
    IF e # NilErr
    THEN LET httpError == ErrorsAs(e)
             s1 == IF httpError # NoHTTPError THEN httpError.Code
                   ELSE respStatus
         IN  IF s1 = 0 \/ s1 = StatusOK THEN StatusInternalServerError
             ELSE s1
    ELSE respStatus

\* variant of RouteOf: the fallback ignores DoNotUseRequestPathFor404
RouteOfIgnoringFlag(cf, ctx) ==
    IF ctx.Path = EmptyStr THEN ctx.Request.URL.Path ELSE ctx.Path

\* the route before sanitising (lines 107-112); ctx.Path is c.Path(), the
\* matched route template
RouteOf(cf, ctx) ==
    IF ctx.Path = EmptyStr /\ ~cf.DoNotUseRequestPathFor404
    THEN ctx.Request.URL.Path
    ELSE ctx.Path

\* the attributes common to every request (lines 125-132)
BaseAttrs(cf, ctx, u, st) ==
    << [key |-> "service.name", value |-> cf.ServiceName],
       [key |-> "http.route", value |-> ToValidUTF8(u)],
       [key |-> "http.request.method", value |-> ctx.Request.Method],
       [key |-> "host.name", value |-> ctx.Scheme],
       [key |-> "http.status_code", value |-> st],
       [key |-> "http.response.status_code", value |-> st] >>

\* the defaults ToMiddleware applies to its configuration (lines 66-72)
ToMiddleware(cf) ==
    [cf EXCEPT !.ServiceName =
        IF cf.ServiceName = "" THEN defaultServiceName ELSE cf.ServiceName]

\* a configured skip predicate (a middleware.Skipper, line 38): this one
\* selects the requests for the path "/x"
SkipperPred(ctx) == ctx.Request.URL.Path = StrSlashX

\* whether the interceptor bypasses the request (line 97)
Skipped(cf, ctx) == cf.Skipper # "nil" /\ SkipperPred(ctx)

\* the configured label functions (LabelValueFunc, line 45): one reads the
\* request, one classifies the handler's error
LabelValue(key, ctx, e) ==
    IF key = "tenant_id" THEN ctx.Request.Host ELSE e.kind

(***************************************************************************)
(* Inputs.                                                                 *)
(***************************************************************************)
LabelKeys == {"tenant_id", "error_kind"}

\* NewMiddleware(serviceName) (lines 47-51): only the service name is set
NewMiddleware(serviceName) ==
    [Skipper |-> "nil", ServiceName |-> serviceName, LabelFuncs |-> {},
     DoNotUseRequestPathFor404 |-> FALSE]

\* the configurations given to ToMiddleware: the one NewMiddleware("myapp")
\* builds, and those a caller of NewMiddlewareWithConfig fills in
Configs ==
    {NewMiddleware("myapp")} \cup
    [Skipper : {"nil", "pred"},
     ServiceName : {""},
     LabelFuncs : {{}, {"tenant_id"}, LabelKeys},
     DoNotUseRequestPathFor404 : BOOLEAN]

BaseRequest ==
    [URL |-> [Path |-> StrSlashX], Method |-> StrGET, Proto |-> StrHTTP11,
     Header |-> (StrA :> <<StrB>>), Host |-> StrH, ContentLength |-> 0]

Requests ==
    {[BaseRequest EXCEPT !.URL = [Path |-> p]] :
        p \in {StrSlashX, StrValid2, StrInvalid}}

Contexts ==
    [Request : Requests, Path : {EmptyStr, StrRoute}, Scheme : {"http"}]

Errors ==
    {NilErr, PlainErr, HTTPError(0), HTTPError(StatusOK), HTTPError(404),
     Wrap(HTTPError(404))}

\* the requests computeApproximateRequestSize is applied to on its own
HeaderValues == {StrB, StrCd}
ValueLists ==
    UNION {[1 .. n -> HeaderValues] : n \in 0 .. MaxHeaderValues}
Headers ==
    UNION {[names -> ValueLists] : names \in SUBSET {StrA, StrBc}}
SizeRequests ==
    [URL : {NoURL, [Path |-> EmptyStr], [Path |-> StrSlashX]},
     Method : {StrGET, StrPOST},
     Proto : {StrHTTP11},
     Header : Headers,
     Host : {EmptyStr, StrH},
     ContentLength : -2 .. MaxContentLength]

Statuses == {0, StatusOK, 404}
ResponseSizes == {0, 5}

Instruments ==
    {"requests_total", "request_duration_seconds", "response_size_bytes",
     "request_size_bytes"}

NoValue == [none |-> TRUE]

(***************************************************************************)
(* State.  The closure returned by ToMiddleware serves one request at a    *)
(* time here; pc is the statement it is at.                                *)
(***************************************************************************)
VARIABLES
    conf,        \* the configuration captured by the closure
    now,         \* the last time conf.timeNow returned
    served,      \* requests received so far
    nonSkipped,  \* requests that passed the skip check
    panics,      \* non-skipped requests whose handler panicked
    totals,      \* per instrument: the counter's sum, a histogram's count
    pc,          \* the statement of the closure to execute next
    c,           \* the echo.Context of the request being served
    resp,        \* c.Response(): Status and Size
    reqSz, start, err, elapsed, url, status, attrs, attributes,
    pending,     \* the keys of conf.LabelFuncs the range loop has not visited
    handlerRet,  \* what next(c) returned
    ret,         \* what the closure returned
    trace,       \* the events of the request being served, in order
    labelCalls,  \* the label function calls of the request being served
    emitted      \* the measurements of the request being served

global == <<conf, now, served, nonSkipped, panics, totals>>
locals == <<reqSz, start, err, elapsed, url, status, attrs, attributes,
            pending>>
ghost == <<handlerRet, ret, trace, labelCalls, emitted>>
vars == <<global, pc, c, resp, locals, ghost>>

ZeroElapsed == [num |-> 0, den |-> Second]

\* nothing served, measured or computed yet
Fresh ==
    /\ now = 0
    /\ served = 0
    /\ nonSkipped = 0
    /\ panics = 0
    /\ totals = [i \in Instruments |-> 0]
    /\ resp = NoValue
    /\ reqSz = 0
    /\ start = 0
    /\ err = NilErr
    /\ elapsed = ZeroElapsed
    /\ url = EmptyStr
    /\ status = 0
    /\ attrs = << >>
    /\ attributes = << >>
    /\ pending = {}
    /\ handlerRet = NoValue
    /\ ret = NoValue
    /\ trace = << >>
    /\ labelCalls = << >>
    /\ emitted = << >>

Init ==
    /\ conf \in {ToMiddleware(cf) : cf \in Configs}
    /\ pc = "idle"
    /\ c = NoValue
    /\ Fresh

Quiescent == pc \in {"idle", "done", "panicked"}

\* the server hands a request to the closure (line 96)
Serve(ctx) ==
    /\ Quiescent
    /\ served < MaxRequests
    /\ served' = served + 1
    /\ c' = ctx
    /\ resp' = [Status |-> StatusOK, Size |-> 0]
    /\ pc' = "skip"
    /\ reqSz' = 0
    /\ start' = 0
    /\ err' = NilErr
    /\ elapsed' = ZeroElapsed
    /\ url' = EmptyStr
    /\ status' = 0
    /\ attrs' = << >>
    /\ attributes' = << >>
    /\ pending' = {}
    /\ handlerRet' = NoValue
    /\ ret' = NoValue
    /\ trace' = << >>
    /\ labelCalls' = << >>
    /\ emitted' = << >>
    /\ UNCHANGED <<conf, now, nonSkipped, panics, totals>>

\* conf.timeNow() returns t: the clock never runs backwards
TimeNow(t) ==
    /\ t \in now .. MaxClock
    /\ now' = t

\* variant of SkipCheck: the skip predicate's answer is ignored
SkipCheckIgnoringAnswer ==
    /\ pc = "skip"
    /\ pc' = "size"
    /\ nonSkipped' = nonSkipped + 1
    /\ UNCHANGED <<conf, now, served, panics, totals, c, resp, locals, ghost>>

\* if conf.Skipper != nil && conf.Skipper(c) (line 97)
SkipCheck ==
    /\ pc = "skip"
    /\ IF Skipped(conf, c)
       THEN /\ pc' = "bypass"
            /\ UNCHANGED nonSkipped
       ELSE /\ pc' = "size"
            /\ nonSkipped' = nonSkipped + 1
    /\ UNCHANGED <<conf, now, served, panics, totals, c, resp, locals, ghost>>

\* next(c) returns e, having written status st and sz bytes
HandlerReturns(e, st, sz) ==
    /\ handlerRet' = e
    /\ resp' = [Status |-> st, Size |-> sz]

\* return next(c) (line 98)
Bypass ==
    /\ pc = "bypass"
    /\ \E e \in Errors, st \in Statuses, sz \in ResponseSizes :
          /\ HandlerReturns(e, st, sz)
          /\ ret' = e
    /\ trace' = trace \o <<"handler", "return">>
    /\ pc' = "done"
    /\ UNCHANGED <<global, c, locals, labelCalls, emitted>>

\* next(c) panics at line 98: the closure is unwound
BypassPanic ==
    /\ pc = "bypass"
    /\ trace' = Append(trace, "handler")
    /\ pc' = "panicked"
    /\ UNCHANGED <<global, c, resp, locals, handlerRet, ret, labelCalls,
                   emitted>>

\* reqSz := computeApproximateRequestSize(c.Request()) (line 101)
ComputeSize ==
    /\ pc = "size"
    /\ reqSz' = computeApproximateRequestSize(c.Request)
    /\ trace' = Append(trace, "size")
    /\ pc' = "start"
    /\ UNCHANGED <<global, c, resp, start, err, elapsed, url, status, attrs,
                   attributes, pending, handlerRet, ret, labelCalls, emitted>>

\* start := conf.timeNow() (line 103)
ReadStart ==
    /\ pc = "start"
    /\ \E t \in 0 .. MaxClock :
          /\ TimeNow(t)
          /\ start' = t
    /\ trace' = Append(trace, "clock")
    /\ pc' = "call"
    /\ UNCHANGED <<conf, served, nonSkipped, panics, totals, c, resp, reqSz, err, elapsed, url, status, attrs,
                   attributes, pending, handlerRet, ret, labelCalls, emitted>>

\* variant of Call: an error is returned at once, before any measurement
CallReturningEarly ==
    /\ pc = "call"
    /\ \E e \in Errors, st \in Statuses, sz \in ResponseSizes :
          /\ HandlerReturns(e, st, sz)
          /\ err' = e
          /\ IF e # NilErr
             THEN /\ ret' = e
                  /\ trace' = trace \o <<"handler", "return">>
                  /\ pc' = "done"
             ELSE /\ ret' = ret
                  /\ trace' = Append(trace, "handler")
                  /\ pc' = "elapsed"
    /\ UNCHANGED <<global, c, reqSz, start, elapsed, url, status, attrs,
                   attributes, pending, labelCalls, emitted>>

\* err := next(c) (line 104)
Call ==
    /\ pc = "call"
    /\ \E e \in Errors, st \in Statuses, sz \in ResponseSizes :
          /\ HandlerReturns(e, st, sz)
          /\ err' = e
    /\ trace' = Append(trace, "handler")
    /\ pc' = "elapsed"
    /\ UNCHANGED <<global, c, reqSz, start, elapsed, url, status, attrs,
                   attributes, pending, ret, labelCalls, emitted>>

\* next(c) panics at line 104: the closure is unwound
CallPanic ==
    /\ pc = "call"
    /\ panics' = panics + 1
    /\ trace' = Append(trace, "handler")
    /\ pc' = "panicked"
    /\ UNCHANGED <<conf, now, served, nonSkipped, totals, c, resp, locals,
                   handlerRet, ret, labelCalls, emitted>>

\* elapsed := float64(conf.timeNow().Sub(start)) / float64(time.Second)
\* (line 105), kept as the fraction it is
ReadElapsed ==
    /\ pc = "elapsed"
    /\ \E t \in 0 .. MaxClock :
          /\ TimeNow(t)
          /\ elapsed' = [num |-> t - start, den |-> Second]
    /\ trace' = Append(trace, "clock")
    /\ pc' = "url"
    /\ UNCHANGED <<conf, served, nonSkipped, panics, totals, c, resp, reqSz, start, err, url, status, attrs,
                   attributes, pending, handlerRet, ret, labelCalls, emitted>>

\* url := c.Path() and the fallback to the request path (lines 107-112)
Route ==
    /\ pc = "url"
    /\ url' = RouteOf(conf, c)
    /\ trace' = Append(trace, "route")
    /\ pc' = "status"
    /\ UNCHANGED <<global, c, resp, reqSz, start, err, elapsed, status, attrs,
                   attributes, pending, handlerRet, ret, labelCalls, emitted>>

\* status := c.Response().Status and its correction (lines 114-123)
Status ==
    /\ pc = "status"
    /\ status' = StatusOf(resp.Status, err)
    /\ trace' = Append(trace, "status")
    /\ pc' = "attrs"
    /\ UNCHANGED <<global, c, resp, reqSz, start, err, elapsed, url, attrs,
                   attributes, pending, handlerRet, ret, labelCalls, emitted>>

\* the six appends to attrs (lines 125-132); the range loop starts
Attrs ==
    /\ pc = "attrs"
    /\ attrs' = BaseAttrs(conf, c, url, status)
    /\ pending' = conf.LabelFuncs
    /\ trace' = Append(trace, "attrs")
    /\ pc' = "labels"
    /\ UNCHANGED <<global, c, resp, reqSz, start, err, elapsed, url, status,
                   attributes, handlerRet, ret, labelCalls, emitted>>

\* variant of Label: the label function is given nil, not the handler's
\* error
LabelWithoutError ==
    /\ pc = "labels"
    /\ \E key \in pending :
          /\ labelCalls' = Append(labelCalls,
                 [key |-> key, ctx |-> c, err |-> NilErr])
          /\ attrs' = Append(attrs,
                 [key |-> key, value |-> LabelValue(key, c, NilErr)])
          /\ pending' = pending \ {key}
    /\ trace' = Append(trace, "label")
    /\ UNCHANGED <<global, pc, c, resp, reqSz, start, err, elapsed, url,
                   status, attributes, handlerRet, ret, emitted>>

\* one iteration of the range over conf.LabelFuncs (lines 134-136): a map
\* is ranged over in any order
Label ==
    /\ pc = "labels"
    /\ \E key \in pending :
          /\ labelCalls' = Append(labelCalls,
                 [key |-> key, ctx |-> c, err |-> err])
          /\ attrs' = Append(attrs,
                 [key |-> key, value |-> LabelValue(key, c, err)])
          /\ pending' = pending \ {key}
    /\ trace' = Append(trace, "label")
    /\ UNCHANGED <<global, pc, c, resp, reqSz, start, err, elapsed, url,
                   status, attributes, handlerRet, ret, emitted>>

\* the loop ends; attributes := metric.WithAttributes(attrs...) (line 138)
WithAttributes ==
    /\ pc = "labels"
    /\ pending = {}
    /\ attributes' = attrs
    /\ pc' = "count"
    /\ UNCHANGED <<global, c, resp, reqSz, start, err, elapsed, url, status,
                   attrs, pending, ghost>>

\* instrument.Add or instrument.Record with value v under attributes
Emit(inst, v, by) ==
    /\ totals' = [totals EXCEPT ![inst] = @ + by]
    /\ emitted' = Append(emitted,
           [inst |-> inst, value |-> v, attrs |-> attributes])
    /\ trace' = Append(trace, inst)
    /\ UNCHANGED <<conf, now, served, nonSkipped, panics, c, resp, locals,
                   handlerRet, ret, labelCalls>>

\* variant of AddRequestCount: only successful requests are counted
AddRequestCountOnSuccess ==
    /\ pc = "count"
    /\ IF err = NilErr
       THEN Emit("requests_total", 1, 1)
       ELSE UNCHANGED <<global, c, resp, locals, ghost>>
    /\ pc' = "reqsize"

\* requestCount.Add(ctx, 1, attributes) (line 142)
AddRequestCount ==
    /\ pc = "count"
    /\ Emit("requests_total", 1, 1)
    /\ pc' = "reqsize"

\* requestSize.Record(ctx, float64(reqSz), attributes) (line 143)
RecordRequestSize ==
    /\ pc = "reqsize"
    /\ Emit("request_size_bytes", reqSz, 1)
    /\ pc' = "respsize"

\* responseSize.Record(ctx, float64(c.Response().Size), attributes) (line 144)
RecordResponseSize ==
    /\ pc = "respsize"
    /\ Emit("response_size_bytes", resp.Size, 1)
    /\ pc' = "duration"

\* requestDuration.Record(ctx, elapsed, attributes) (line 145)
RecordDuration ==
    /\ pc = "duration"
    /\ Emit("request_duration_seconds", elapsed, 1)
    /\ pc' = "return"

\* variant of Return: an error whose status was recorded is not returned
ReturnSwallowing ==
    /\ pc = "return"
    /\ ret' = NilErr
    /\ trace' = Append(trace, "return")
    /\ pc' = "done"
    /\ UNCHANGED <<global, c, resp, locals, handlerRet, labelCalls, emitted>>

\* return err (line 147)
Return ==
    /\ pc = "return"
    /\ ret' = err
    /\ trace' = Append(trace, "return")
    /\ pc' = "done"
    /\ UNCHANGED <<global, c, resp, locals, handlerRet, labelCalls, emitted>>

Next ==
    \/ \E ctx \in Contexts : Serve(ctx)
    \/ SkipCheck
    \/ Bypass
    \/ BypassPanic
    \/ ComputeSize
    \/ ReadStart
    \/ Call
    \/ CallPanic
    \/ ReadElapsed
    \/ Route
    \/ Status
    \/ Attrs
    \/ Label
    \/ WithAttributes
    \/ AddRequestCount
    \/ RecordRequestSize
    \/ RecordResponseSize
    \/ RecordDuration
    \/ Return

Spec == Init /\ [][Next]_vars

(***************************************************************************)
(* computeApproximateRequestSize on its own: Init draws the request, the   *)
(* one step applies the function.                                          *)
(***************************************************************************)
InitSize ==
    /\ conf = ToMiddleware(NewMiddleware(""))
    /\ pc = "sizing"
    /\ \E r \in SizeRequests :
          c = [Request |-> r, Path |-> EmptyStr, Scheme |-> "http"]
    /\ Fresh

SizeStep ==
    /\ pc = "sizing"
    /\ reqSz' = computeApproximateRequestSize(c.Request)
    /\ pc' = "sized"
    /\ UNCHANGED <<global, c, resp, start, err, elapsed, url, status, attrs,
                   attributes, pending, ghost>>

NextSize == SizeStep

SpecSize == InitSize /\ [][NextSize]_vars

(***************************************************************************)
(* Properties.                                                             *)
(***************************************************************************)
\* the closure has returned for a request it did not bypass
Measured == pc = "done" /\ ~Skipped(conf, c)

\* the closure has returned for a request it bypassed
Bypassed == pc = "done" /\ Skipped(conf, c)

\* how many times e occurs in the sequence q
Count(q, e) == Cardinality({i \in 1 .. Len(q) : q[i] = e})

\* the values the attribute list a carries under key k, by position
ValuesUnder(a, k) == {a[i].value : i \in {j \in 1 .. Len(a) : a[j].key = k}}
TimesUnder(a, k) == Cardinality({j \in 1 .. Len(a) : a[j].key = k})

\* every measurement emitted for the request carries value v, once, under k
Recorded(k, v) ==
    \A i \in 1 .. Len(emitted) :
        /\ TimesUnder(emitted[i].attrs, k) = 1
        /\ ValuesUnder(emitted[i].attrs, k) = {v}

\* the sum of len(name) plus the lengths of all its values over the header
\* names in the set names
RECURSIVE SumOverHeaders(_, _)
SumOverHeaders(header, names) ==
    IF names = {} THEN 0
    ELSE LET n == CHOOSE x \in names : TRUE
             valueBytes ==
                 LET RECURSIVE Upto(_)
                     Upto(k) == IF k = 0 THEN 0
                                ELSE Len(header[n][k]) + Upto(k - 1)
                 IN  Upto(Len(header[n]))
         IN  Len(n) + valueBytes + SumOverHeaders(header, names \ {n})

\* the path, method, protocol, header and host lengths of r
PartsWithoutBody(r) ==
    (IF r.URL = NoURL THEN 0 ELSE Len(r.URL.Path))
    + Len(r.Method) + Len(r.Proto) + Len(r.Host)
    + SumOverHeaders(r.Header, DOMAIN r.Header)

\* C1: whatever the handler returned (nil or any error), for a bypassed or a
\* measured request, the closure returns exactly that value, also when the
\* recorded status was coerced to 500.
C1_ReturnsHandlerResult == pc = "done" => ret = handlerRet

C1_Witness ==
    /\ Measured
    /\ handlerRet = PlainErr
    /\ resp.Status = StatusOK
    /\ status = StatusInternalServerError
    /\ ret = PlainErr

\* C2: while the closure serves a request its skip predicate selects, no
\* step adds to an instrument, reads the clock, calls a label function or
\* emits a measurement, and when it returns the handler has run exactly
\* once.
C2_SkipEmitsNothing ==
    [][(c # NoValue /\ c' = c /\ Skipped(conf, c)) =>
          /\ totals' = totals
          /\ now' = now
          /\ emitted' = << >>
          /\ labelCalls' = << >>
          /\ Count(trace', "clock") = 0
          /\ (pc' = "done" => Count(trace', "handler") = 1)]_vars

C2_Witness ==
    /\ Bypassed
    /\ served = 2
    /\ totals["requests_total"] = 1
    /\ Count(trace, "handler") = 1
    /\ emitted = << >>

\* C3: a measured request has emitted exactly four measurements, one per
\* instrument, all under one attribute list: 1 to the counter, the computed
\* request size, the response's size and the elapsed time to the
\* histograms; and whenever no request is in progress every instrument has
\* received one measurement per non-skipped request whose handler returned.
C3_FourMeasurements ==
    /\ Measured =>
          /\ Len(emitted) = 4
          /\ \A i \in Instruments :
                Cardinality({j \in 1 .. 4 : emitted[j].inst = i}) = 1
          /\ \A j \in 1 .. 4 :
                /\ emitted[j].attrs = emitted[1].attrs
                /\ emitted[j].inst = "requests_total" => emitted[j].value = 1
                /\ emitted[j].inst = "request_size_bytes" =>
                      emitted[j].value = PartsWithoutBody(c.Request)
                          + (IF c.Request.ContentLength >= 0
                             THEN c.Request.ContentLength ELSE 0)
                /\ emitted[j].inst = "response_size_bytes" =>
                      emitted[j].value = resp.Size
                /\ emitted[j].inst = "request_duration_seconds" =>
                      /\ emitted[j].value = elapsed
                      /\ elapsed.num \in 0 .. MaxClock
    /\ Quiescent =>
          \A i \in Instruments : totals[i] = nonSkipped - panics

C3_Witness ==
    /\ Measured
    /\ served = 2
    /\ nonSkipped = 2
    /\ panics = 0
    /\ handlerRet # NilErr
    /\ totals["requests_total"] = 2

\* an error that carries no *echo.HTTPError anywhere in its chain
NoStructuredCode(e) ==
    \/ e.kind = "plain"
    \/ (e.kind = "wrapped" /\ e.inner.kind = "plain")

\* C4: when the handler returned an error without a structured HTTP error
\* code and the response status is 200 or 0, the status recorded on every
\* measurement is 500.
C4_UncodedErrorIs500 ==
    (/\ Measured
     /\ NoStructuredCode(handlerRet)
     /\ resp.Status \in {0, StatusOK}) =>
        /\ Len(emitted) > 0
        /\ Recorded("http.status_code", StatusInternalServerError)

C4_Witness ==
    /\ Measured
    /\ handlerRet = PlainErr
    /\ resp.Status = 0
    /\ Recorded("http.status_code", StatusInternalServerError)

\* the structured code an error carries: that of the outermost
\* *echo.HTTPError of the errors modelled (an HTTPError, or one wrapped once)
CodeCarried(e) == IF e.kind = "http" THEN e.Code ELSE e.inner.Code
CarriesCode(e) ==
    \/ e.kind = "http"
    \/ (e.kind = "wrapped" /\ e.inner.kind = "http")

\* C5: when the handler returned an error carrying a structured code other
\* than 0 and 200, every measurement records that code under both status
\* keys, whatever status the response has.
C5_CodedErrorIsItsCode ==
    (/\ Measured
     /\ CarriesCode(handlerRet)
     /\ CodeCarried(handlerRet) \notin {0, StatusOK}) =>
        /\ Len(emitted) > 0
        /\ Recorded("http.status_code", CodeCarried(handlerRet))
        /\ Recorded("http.response.status_code", CodeCarried(handlerRet))

C5_Witness ==
    /\ Measured
    /\ handlerRet = Wrap(HTTPError(404))
    /\ resp.Status = StatusOK
    /\ Recorded("http.status_code", 404)
    /\ Recorded("http.response.status_code", 404)

\* C6: the content length contributes nothing when it is -1 and never a
\* negative amount: the computed size is never less than the sum of the
\* path, method, protocol, header and host lengths.
C6_ContentLengthNeverNegative ==
    pc = "sized" =>
        /\ reqSz >= PartsWithoutBody(c.Request)
        /\ (c.Request.ContentLength = -1 =>
               reqSz = PartsWithoutBody(c.Request))

\* C7: for a request with a known (non-negative) content length the
\* computed size is the path, method, protocol and host lengths, the content
\* length, and for every header its name once plus all its values; the
\* request GET /x HTTP/1.1 with header A: b, host h and no body gives 16.
C7_SizeIsSumOfParts ==
    pc = "sized" =>
        /\ (c.Request.ContentLength >= 0 =>
               reqSz = PartsWithoutBody(c.Request) + c.Request.ContentLength)
        /\ (c.Request = BaseRequest => reqSz = 16)

C7_Witness ==
    /\ pc = "sized"
    /\ c.Request.URL = NoURL
    /\ c.Request.Header = (StrBc :> <<StrB, StrCd>>)
    /\ c.Request.ContentLength = 2
    /\ c.Request.Method = StrPOST
    /\ c.Request.Host = StrH
    /\ reqSz = 20

\* the worked example of C7 is among the requests sized
C7_ExampleReached == pc = "sized" /\ c.Request = BaseRequest /\ reqSz = 16

\* the route the claim names: the matched route, else the request path when
\* the fallback is enabled, else empty
RouteNamed ==
    IF c.Path # EmptyStr THEN c.Path
    ELSE IF ~conf.DoNotUseRequestPathFor404 THEN c.Request.URL.Path
    ELSE EmptyStr

\* s[i..] is a sequence of valid UTF-8 encodings
RECURSIVE ValidFrom(_, _)
ValidFrom(s, i) ==
    IF i > Len(s) THEN TRUE
    ELSE IF s[i] < RuneSelf THEN ValidFrom(s, i + 1)
    ELSE DecodeWidth(s, i) > 1 /\ ValidFrom(s, i + DecodeWidth(s, i))

IsValidUTF8(s) == ValidFrom(s, 1)

\* C8 as stated: the recorded route attribute is the matched route when it
\* is non-empty, the raw request path when the route is empty and the
\* fallback is enabled, and empty when the fallback is disabled.
C8_RouteIsRawValue ==
    Measured => Recorded("http.route", RouteNamed)

\* C8 amended: the recorded route attribute is that value made valid UTF-8
\* (each run of invalid bytes replaced by U+FFFD); it is that value itself
\* whenever the value is valid UTF-8, and the request path is never used
\* when a route template is known.
C8_RouteIsSanitisedValue ==
    Measured =>
        /\ Len(emitted) > 0
        /\ Recorded("http.route", ToValidUTF8(RouteNamed))
        /\ (IsValidUTF8(RouteNamed) => Recorded("http.route", RouteNamed))
        /\ (c.Path # EmptyStr => Recorded("http.route", ToValidUTF8(c.Path)))

C8_Witness ==
    /\ Measured
    /\ c.Path = EmptyStr
    /\ ~conf.DoNotUseRequestPathFor404
    /\ c.Request.URL.Path = StrInvalid
    /\ Recorded("http.route", <<47>> \o Replacement \o <<120>>)

\* C9: for a measured request every configured label function has been
\* called exactly once, with the request context and the error the handler
\* returned, and every measurement carries, besides the six fixed
\* attributes, exactly one attribute per configured label, holding what
\* that label function returns for that context and error.
C9_LabelsOncePerRequest ==
    Measured =>
        /\ Len(labelCalls) = Cardinality(conf.LabelFuncs)
        /\ \A k \in conf.LabelFuncs :
              /\ Count(labelCalls, [key |-> k, ctx |-> c, err |-> handlerRet])
                    = 1
              /\ Recorded(k, LabelValue(k, c, handlerRet))
        /\ Len(emitted) > 0
        /\ \A i \in 1 .. Len(emitted) :
              Len(emitted[i].attrs) = 6 + Cardinality(conf.LabelFuncs)

C9_Witness ==
    /\ Measured
    /\ conf.LabelFuncs = LabelKeys
    /\ handlerRet = PlainErr
    /\ status = StatusInternalServerError
    /\ Recorded("error_kind", "plain")
    /\ Recorded("tenant_id", StrH)

\* n label events
RECURSIVE LabelEvents(_)
LabelEvents(n) == IF n = 0 THEN << >> ELSE <<"label">> \o LabelEvents(n - 1)

\* C10: the events of a measured request are, in this order: the size
\* computation and the first clock read, the one handler call, the second
\* clock read, the route, the status and the attributes with one label call
\* per label, the four emissions, the return; so the clock is read exactly
\* twice, whether or not the handler returned an error.
C10_StepOrder ==
    Measured =>
        /\ trace = <<"size", "clock", "handler", "clock", "route", "status",
                     "attrs">>
                   \o LabelEvents(Cardinality(conf.LabelFuncs))
                   \o <<"requests_total", "request_size_bytes",
                        "response_size_bytes", "request_duration_seconds",
                        "return">>
        /\ Count(trace, "clock") = 2
        /\ Count(trace, "handler") = 1

C10_Witness ==
    /\ Measured
    /\ handlerRet # NilErr
    /\ Count(trace, "clock") = 2
    /\ Count(trace, "label") = 2
    /\ elapsed.num = 1

=============================================================================
